---------------------------- MODULE Spec2Model ----------------------------
(***************************************************************************)
(* Model of package shutdown (resenje.org/x/shutdown): the Graceful type,  *)
(* its sync.WaitGroup, its quit channel guarded by a sync.Once, the        *)
(* Shutdown method with its helper goroutine, and the Context method with  *)
(* its listener goroutine; and of package application: App.Start with     *)
(* its signals and the goroutine of ShutdownFunc, and StopDaemon.          *)
(*                                                                         *)
(* Goroutines are processes; every step below is one atomic access to      *)
(* shared state (the WaitGroup state word, a channel, the Once).  A panic  *)
(* in a goroutine that uses a Graceful ends its process: no action on a    *)
(* Graceful is enabled afterwards.                                         *)
(***************************************************************************)
EXTENDS Integers, FiniteSets

\* Number of Shutdown calls made on the Graceful over its life.
NumCalls == 2

\* Largest value the WaitGroup counter takes, and largest |delta| of an Add.
MaxCount == 2

\* Number of contexts derived with Graceful.Context.
NumCtx == 1

\* Number of worker goroutines of the shape used in TestGraceful_quit.
NumQuitWorkers == 2

\* Length of a.Functions.
NumFunctions == 2

\* SIGINT and SIGTERM sent to the daemon process by others than StopDaemon.
MaxSignals == 2

\* StopDaemon gives up when its loop counter is above this.
MaxRetries == 10

Calls == 1..NumCalls
Ctxs == 1..NumCtx
QWorkers == 1..NumQuitWorkers
Deltas == (-MaxCount..MaxCount) \ {0}

\* context errors
NoErr == "nil"
DeadlineExceeded == "context.DeadlineExceeded"
Canceled == "context.Canceled"
CtxErrs == {DeadlineExceeded, Canceled}

\* panic messages of the Go runtime and of package sync
NoPanic == "none"
NegativeCounter == "sync: negative WaitGroup counter"
Misuse == "sync: WaitGroup misuse: Add called concurrently with Wait"
Reused == "sync: WaitGroup is reused before previous Wait has returned"
CloseOfClosed == "close of closed channel"

VARIABLES
    counter,     \* g.wg: the counter half of the WaitGroup state word
    waiters,     \* g.wg: the waiter count half of the WaitGroup state word
    sema,        \* g.wg: semaphore tokens released and not yet acquired
    releasing,   \* g.wg: waiters captured by the Add that is between
                 \*   reaching zero and resetting the state word (0: none)
    quit,        \* g.quit is closed
    onceDone,    \* g.quitOnce has run
    panic,       \* the panic that ended the process, or NoPanic
    pc,          \* per Shutdown call: "idle", "once", "select", "returned"
    hpc,         \* per Shutdown call, its helper goroutine:
                 \*   "none", "wait", "parked", "finished" (done is closed)
    cancelable,  \* per Shutdown call: ctx can become done
    ctxErr,      \* per Shutdown call: ctx.Err()
    result,      \* per Shutdown call: the value returned
    dpc,         \* per derived context, its listener goroutine:
                 \*   "none", "select", "finished"
    parentDone,  \* per derived context: the parent context is canceled
    dctxDone,    \* per derived context: the derived context is canceled
    qpc,         \* per quit worker: "new", "blocked", "finished"
    \* history variables: they guard no action and change no other variable
    sum,         \* sum of all deltas passed to the WaitGroup
    quitCloses,  \* number of close(g.quit) executed
    tracking,    \* which of the per-call histories below are recorded
    addSince,    \* per call: a positive Add happened since it was called
    zeroSeen,    \* per call: the counter was zero during the call: "no",
                 \*   "atCall" (when Shutdown was called) or "later"
    race,        \* per call: which came first during the call,
                 \*   "zero" (counter zero) or "ctx" (ctx done); "none" yet
    \* a second Graceful of the same process
    otherCounter,  \* its wg: the counter
    otherWaiters,  \* its wg: helpers of its Shutdown calls blocked in Wait
    otherQuit,     \* its quit is closed
    \* package application: App.Start in the daemon process
    startPc,       \* Start: "functions", "wait", "cleanup", "spawn",
                   \*   "select", "returned"; or the process is gone:
                   \*   "exited" (os.Exit(1)), "killed" (by a signal)
    fnIdx,         \* Start: number of a.Functions already run
    startErr,      \* Start: the value returned, "none" before
    hasShutdownFunc,  \* a.ShutdownFunc != nil
    pidFile,       \* the daemon's pid file exists
    sfPc,          \* the goroutine of ShutdownFunc: "none", "running",
                   \*   "returned" (ShutdownFunc returned),
                   \*   "closed" (done is closed, goroutine ended),
                   \*   "recovered" (ShutdownFunc panicked, goroutine ended)
    sfOutcome,     \* what ShutdownFunc did: "none", "nil", "error", "panic"
    sigSent,       \* SIGINT and SIGTERM sent to the process so far
    sigReceived,   \* of these, received from interruptChannel by Start
    \* package application: StopDaemon in the process that stops the daemon
    stopPc,        \* StopDaemon: "idle", "stop", "check", "status",
                   \*   "sleep", "returned"
    i,             \* StopDaemon: the loop counter
    polls,         \* history: number of d.Status() calls made
    lastPollErr,   \* history: the last d.Status() returned an error
    stopErr        \* StopDaemon: the value returned, "none" before

wgVars == <<counter, waiters, sema, releasing, sum>>
quitVars == <<quit, onceDone, quitCloses>>
callVars == <<pc, hpc, cancelable, ctxErr, result>>
histVars == <<tracking, addSince, zeroSeen, race>>
ctxVars == <<dpc, parentDone, dctxDone>>
otherVars == <<otherCounter, otherWaiters, otherQuit>>
startVars == <<startPc, fnIdx, startErr, hasShutdownFunc, pidFile, sfPc,
               sfOutcome, sigSent, sigReceived>>
stopVars == <<stopPc, i, polls, lastPollErr, stopErr>>
appVars == <<startVars, stopVars>>
vars == <<counter, waiters, sema, releasing, quit, onceDone, panic, pc, hpc,
          cancelable, ctxErr, result, dpc, parentDone, dctxDone, qpc, sum,
          quitCloses, tracking, addSince, zeroSeen, race,
          otherCounter, otherWaiters, otherQuit,
          startPc, fnIdx, startErr, hasShutdownFunc, pidFile, sfPc,
          sfOutcome, sigSent, sigReceived,
          stopPc, i, polls, lastPollErr, stopErr>>

InCall(c) == pc[c] \in {"once", "select"}

\* NewGraceful: a zero WaitGroup, an open quit channel, a fresh Once; each
\* call makes its own.
NewGraceful ==
    /\ otherCounter = 0
    /\ otherWaiters = 0
    /\ otherQuit = FALSE
    /\ counter = 0
    /\ waiters = 0
    /\ sema = 0
    /\ releasing = 0
    /\ quit = FALSE
    /\ onceDone = FALSE
    /\ panic = NoPanic
    /\ pc = [c \in Calls |-> "idle"]
    /\ hpc = [c \in Calls |-> "none"]
    /\ cancelable = [c \in Calls |-> FALSE]
    /\ ctxErr = [c \in Calls |-> NoErr]
    /\ result = [c \in Calls |-> NoErr]
    /\ dpc = [d \in Ctxs |-> "none"]
    /\ parentDone = [d \in Ctxs |-> FALSE]
    /\ dctxDone = [d \in Ctxs |-> FALSE]
    /\ qpc = [q \in QWorkers |-> "new"]
    /\ sum = 0
    /\ quitCloses = 0
    /\ addSince = [c \in Calls |-> FALSE]
    /\ zeroSeen = [c \in Calls |-> "no"]
    /\ race = [c \in Calls |-> "none"]

\* The state of App.Start and StopDaemon before either is called, for an
\* App with the given ShutdownFunc and pid file.
NewApp(shutdownFunc, pid) ==
    /\ startPc = "functions"
    /\ fnIdx = 0
    /\ startErr = "none"
    /\ hasShutdownFunc = shutdownFunc
    /\ pidFile = pid
    /\ sfPc = "none"
    /\ sfOutcome = "none"
    /\ sigSent = 0
    /\ sigReceived = 0
    /\ stopPc = "idle"
    /\ i = 0
    /\ polls = 0
    /\ lastPollErr = FALSE
    /\ stopErr = "none"

\* A Graceful used on its own: Start and StopDaemon are never called.
Init == NewGraceful /\ tracking = {} /\ NewApp(FALSE, FALSE)

\* The same initial state, with histories recorded.
InitZero == NewGraceful /\ tracking = {"zeroSeen"} /\ NewApp(FALSE, FALSE)

InitDrain ==
    NewGraceful /\ tracking = {"zeroSeen", "addSince"} /\ NewApp(FALSE, FALSE)

InitRace == NewGraceful /\ tracking = {"race"} /\ NewApp(FALSE, FALSE)

\* The history of each call, after a step that leaves the calls at npc, the
\* counter at ncounter and the contexts at nerr; called marks the step in
\* which Shutdown is called, added a step that adds a positive delta.
Track(npc, ncounter, nerr, called, added) ==
    /\ tracking' = tracking
    /\ addSince' =
        IF "addSince" \notin tracking THEN addSince
        ELSE [c \in Calls |-> addSince[c] \/ (added /\ npc[c] # "idle")]
    /\ zeroSeen' =
        IF "zeroSeen" \notin tracking THEN zeroSeen
        ELSE [c \in Calls |->
                IF zeroSeen[c] # "no" \/ npc[c] \notin {"once", "select"}
                    \/ ncounter # 0
                THEN zeroSeen[c]
                ELSE IF called THEN "atCall" ELSE "later"]
    /\ race' =
        IF "race" \notin tracking THEN race
        ELSE [c \in Calls |->
                IF race[c] # "none" \/ npc[c] \notin {"once", "select"}
                THEN race[c]
                ELSE IF nerr[c] # NoErr THEN "ctx"
                ELSE IF ncounter = 0 THEN "zero"
                ELSE "none"]


-----------------------------------------------------------------------------
(* sync.WaitGroup, as used through g.wg *)

\* Faulty variant of WgAdd: a counter that would go negative is clamped to
\* zero and Add returns.
WgAddClamp(delta) ==
    LET v == IF counter + delta < 0 THEN 0 ELSE counter + delta IN
    /\ counter' = v
    /\ sum' = sum + delta
    /\ sema' = sema
    /\ waiters' = waiters
    /\ panic' = panic
    /\ releasing' = IF v > 0 \/ waiters = 0 THEN releasing ELSE waiters

\* Faulty variant of WgAdd: the add is a load followed by a store, and a
\* decrement made while a waiter registers in between is overwritten.
WgAddLost(delta) ==
    LET v == IF waiters # 0 /\ delta < 0 /\ counter + delta > 0
             THEN counter
             ELSE counter + delta IN
    /\ counter' = v
    /\ sum' = sum + delta
    /\ sema' = sema
    /\ waiters' = waiters
    /\ IF v < 0
       THEN panic' = NegativeCounter /\ releasing' = releasing
       ELSE IF waiters # 0 /\ delta > 0 /\ v = delta
       THEN panic' = Misuse /\ releasing' = releasing
       ELSE IF v > 0 \/ waiters = 0
       THEN panic' = panic /\ releasing' = releasing
       ELSE panic' = panic /\ releasing' = waiters

\* wg.Add(delta): the atomic add to the state word and the checks after it.
\* The counter is left as added when Add panics.  An Add that brings the
\* counter to zero with waiters registered goes on to WgRelease.
WgAdd(delta) ==
    LET v == counter + delta IN
    /\ counter' = v
    /\ sum' = sum + delta
    /\ sema' = sema
    /\ waiters' = waiters
    /\ IF v < 0
       THEN panic' = NegativeCounter /\ releasing' = releasing
       ELSE IF waiters # 0 /\ delta > 0 /\ v = delta
       THEN panic' = Misuse /\ releasing' = releasing
       ELSE IF v > 0 \/ waiters = 0
       THEN panic' = panic /\ releasing' = releasing
       ELSE panic' = panic /\ releasing' = waiters

\* Faulty variant of WgRelease: the semaphore is released once, whatever the
\* number of waiters.
WgReleaseOne ==
    /\ panic = NoPanic
    /\ releasing > 0
    /\ IF counter # 0 \/ waiters # releasing
       THEN panic' = Misuse /\ UNCHANGED <<waiters, sema, releasing>>
       ELSE /\ waiters' = 0
            /\ sema' = sema + 1
            /\ releasing' = 0
            /\ panic' = panic
    /\ UNCHANGED <<counter, sum, qpc>>
    /\ UNCHANGED quitVars
    /\ UNCHANGED callVars
    /\ UNCHANGED histVars
    /\ UNCHANGED ctxVars
    /\ UNCHANGED otherVars
    /\ UNCHANGED appVars

\* The rest of the wg.Add that set the counter to zero with waiters
\* registered: it checks that the state word has not changed, resets the
\* waiter count and releases the semaphore once per waiter.
WgRelease ==
    /\ panic = NoPanic
    /\ releasing > 0
    /\ IF counter # 0 \/ waiters # releasing
       THEN panic' = Misuse /\ UNCHANGED <<waiters, sema, releasing>>
       ELSE /\ waiters' = 0
            /\ sema' = sema + releasing
            /\ releasing' = 0
            /\ panic' = panic
    /\ UNCHANGED <<counter, sum, qpc>>
    /\ UNCHANGED quitVars
    /\ UNCHANGED callVars
    /\ UNCHANGED histVars
    /\ UNCHANGED ctxVars
    /\ UNCHANGED otherVars
    /\ UNCHANGED appVars

-----------------------------------------------------------------------------
(* Graceful.Add and Graceful.Done, called by worker goroutines *)

Add(delta) ==
    /\ panic = NoPanic
    /\ counter + delta <= MaxCount
    /\ WgAdd(delta)
    /\ Track(pc, counter + delta, ctxErr, FALSE, delta > 0)
    /\ UNCHANGED qpc
    /\ UNCHANGED quitVars
    /\ UNCHANGED callVars
    /\ UNCHANGED ctxVars
    /\ UNCHANGED otherVars
    /\ UNCHANGED appVars

\* Faulty variant of Done: a Done with the counter at zero is ignored.
DoneClamp ==
    /\ panic = NoPanic
    /\ WgAddClamp(-1)
    /\ Track(pc, IF counter = 0 THEN 0 ELSE counter - 1, ctxErr, FALSE, FALSE)
    /\ UNCHANGED qpc
    /\ UNCHANGED quitVars
    /\ UNCHANGED callVars
    /\ UNCHANGED ctxVars
    /\ UNCHANGED otherVars
    /\ UNCHANGED appVars

Done ==
    /\ panic = NoPanic
    /\ WgAdd(-1)
    /\ Track(pc, counter - 1, ctxErr, FALSE, FALSE)
    /\ UNCHANGED qpc
    /\ UNCHANGED quitVars
    /\ UNCHANGED callVars
    /\ UNCHANGED ctxVars
    /\ UNCHANGED otherVars
    /\ UNCHANGED appVars

-----------------------------------------------------------------------------
(* Graceful.Shutdown *)

\* The contexts a caller can pass: context.Background(), or a context with a
\* deadline or a cancel function, which may be done already.
CtxInputs ==
    {<<FALSE, NoErr>>, <<TRUE, NoErr>>, <<TRUE, DeadlineExceeded>>,
     <<TRUE, Canceled>>}

\* A goroutine calls g.Shutdown(ctx).  Calls are numbered in the order in
\* which they are made.
ShutdownCall(c) ==
    /\ panic = NoPanic
    /\ pc[c] = "idle"
    /\ IF c = 1 THEN TRUE ELSE pc[c - 1] # "idle"
    /\ \E in \in CtxInputs :
        /\ cancelable' = [cancelable EXCEPT ![c] = in[1]]
        /\ ctxErr' = [ctxErr EXCEPT ![c] = in[2]]
        /\ pc' = [pc EXCEPT ![c] = "once"]
        /\ Track(pc', counter, ctxErr', TRUE, FALSE)
    /\ UNCHANGED <<hpc, result, panic, qpc>>
    /\ UNCHANGED wgVars
    /\ UNCHANGED quitVars
    /\ UNCHANGED ctxVars
    /\ UNCHANGED otherVars
    /\ UNCHANGED appVars

\* close(g.quit): closing a closed channel panics.
CloseQuit ==
    /\ quit' = TRUE
    /\ quitCloses' = quitCloses + 1
    /\ panic' = IF quit THEN CloseOfClosed ELSE panic

\* Faulty variant of OnceDo: no Once, every call closes g.quit.
OnceDoAlways == CloseQuit /\ onceDone' = TRUE

\* Faulty variant of OnceDo: the Once runs without closing g.quit.
OnceDoSkipClose ==
    /\ onceDone' = TRUE
    /\ UNCHANGED <<quit, quitCloses, panic>>

\* Faulty variant of OnceDo: quit is a flag that every call flips.
OnceDoToggle ==
    /\ quit' = ~quit
    /\ quitCloses' = IF quit THEN quitCloses ELSE quitCloses + 1
    /\ onceDone' = TRUE
    /\ panic' = panic

\* g.quitOnce.Do(func() { close(g.quit) }): the function runs in the first
\* call only; the Once's mutex makes the call atomic.
OnceDo ==
    IF onceDone
    THEN UNCHANGED <<quit, quitCloses, panic, onceDone>>
    ELSE CloseQuit /\ onceDone' = TRUE

\* Faulty variant of ShutdownOnce: the quit channel is one package variable,
\* closed for every Graceful at once.
ShutdownOnceSharedQuit(c) ==
    /\ panic = NoPanic
    /\ pc[c] = "once"
    /\ OnceDo
    /\ pc' = [pc EXCEPT ![c] = "select"]
    /\ hpc' = [hpc EXCEPT ![c] = "wait"]
    /\ otherQuit' = TRUE
    /\ UNCHANGED <<cancelable, ctxErr, result, qpc>>
    /\ UNCHANGED wgVars
    /\ UNCHANGED histVars
    /\ UNCHANGED ctxVars
    /\ UNCHANGED <<otherCounter, otherWaiters>>
    /\ UNCHANGED appVars

\* Shutdown up to its select: the Once, the done channel and the go
\* statement that starts the helper goroutine.
ShutdownOnce(c) ==
    /\ panic = NoPanic
    /\ pc[c] = "once"
    /\ OnceDo
    /\ pc' = [pc EXCEPT ![c] = "select"]
    /\ hpc' = [hpc EXCEPT ![c] = "wait"]
    /\ UNCHANGED <<cancelable, ctxErr, result, qpc>>
    /\ UNCHANGED wgVars
    /\ UNCHANGED histVars
    /\ UNCHANGED ctxVars
    /\ UNCHANGED otherVars
    /\ UNCHANGED appVars

\* Faulty variant of HelperWait: the helper closes done without waiting.
HelperWaitNoBlock(c) ==
    /\ panic = NoPanic
    /\ hpc[c] = "wait"
    /\ hpc' = [hpc EXCEPT ![c] = "finished"]
    /\ UNCHANGED <<counter, waiters, sema, releasing, sum, panic, qpc>>
    /\ UNCHANGED <<pc, cancelable, ctxErr, result>>
    /\ UNCHANGED quitVars
    /\ UNCHANGED histVars
    /\ UNCHANGED ctxVars
    /\ UNCHANGED otherVars
    /\ UNCHANGED appVars

\* Faulty variant of HelperWait: Wait registers as a waiter and parks
\* whatever the counter.
HelperWaitAlwaysPark(c) ==
    /\ panic = NoPanic
    /\ hpc[c] = "wait"
    /\ hpc' = [hpc EXCEPT ![c] = "parked"]
    /\ waiters' = waiters + 1
    /\ UNCHANGED <<counter, sema, releasing, sum, panic, qpc>>
    /\ UNCHANGED <<pc, cancelable, ctxErr, result>>
    /\ UNCHANGED quitVars
    /\ UNCHANGED histVars
    /\ UNCHANGED ctxVars
    /\ UNCHANGED otherVars
    /\ UNCHANGED appVars

\* The helper goroutine enters g.wg.Wait(): with the counter at zero Wait
\* returns at once and the helper closes done; otherwise it registers as a
\* waiter and parks on the semaphore.
HelperWait(c) ==
    /\ panic = NoPanic
    /\ hpc[c] = "wait"
    /\ IF counter = 0
       THEN /\ hpc' = [hpc EXCEPT ![c] = "finished"]
            /\ waiters' = waiters
       ELSE /\ hpc' = [hpc EXCEPT ![c] = "parked"]
            /\ waiters' = waiters + 1
    /\ UNCHANGED <<counter, sema, releasing, sum, panic, qpc>>
    /\ UNCHANGED <<pc, cancelable, ctxErr, result>>
    /\ UNCHANGED quitVars
    /\ UNCHANGED histVars
    /\ UNCHANGED ctxVars
    /\ UNCHANGED otherVars
    /\ UNCHANGED appVars

\* The helper goroutine is woken in g.wg.Wait(): it acquires the semaphore,
\* panics if the state word is not zero, and otherwise returns from Wait and
\* closes done.
HelperWake(c) ==
    /\ panic = NoPanic
    /\ hpc[c] = "parked"
    /\ sema > 0
    /\ sema' = sema - 1
    /\ IF counter # 0 \/ waiters # 0
       THEN panic' = Reused /\ hpc' = hpc
       ELSE panic' = panic /\ hpc' = [hpc EXCEPT ![c] = "finished"]
    /\ UNCHANGED <<counter, waiters, releasing, sum, qpc>>
    /\ UNCHANGED <<pc, cancelable, ctxErr, result>>
    /\ UNCHANGED quitVars
    /\ UNCHANGED histVars
    /\ UNCHANGED ctxVars
    /\ UNCHANGED otherVars
    /\ UNCHANGED appVars

\* The done channel of call c is closed.
DoneClosed(c) == hpc[c] = "finished"

\* Faulty variant of SelectResults: the select has a default case.
SelectResultsDefault(c) ==
    (IF ctxErr[c] # NoErr THEN {ctxErr[c]} ELSE {}) \cup {NoErr}

\* Faulty variant of SelectResults: the select has no ctx.Done() case.
SelectResultsDoneOnly(c) ==
    IF DoneClosed(c) THEN {NoErr} ELSE {}

\* Faulty variant of SelectResults: the ctx.Done() case returns
\* context.Canceled, not ctx.Err().
SelectResultsCanceled(c) ==
    (IF ctxErr[c] # NoErr THEN {Canceled} ELSE {})
        \cup (IF DoneClosed(c) THEN {NoErr} ELSE {})

\* The values the select of Shutdown can return: ctx.Err() when ctx.Done()
\* is ready, nil when done is ready; with both ready, either.
SelectResults(c) ==
    (IF ctxErr[c] # NoErr THEN {ctxErr[c]} ELSE {})
        \cup (IF DoneClosed(c) THEN {NoErr} ELSE {})

\* Faulty variant of ShutdownSelect: done is shared by all calls and closed
\* by a call that returns on ctx.Done().
ShutdownSelectSharedDone(c) ==
    /\ panic = NoPanic
    /\ pc[c] = "select"
    /\ \E r \in (IF ctxErr[c] # NoErr THEN {ctxErr[c]} ELSE {})
                \cup (IF DoneClosed(c) THEN {NoErr} ELSE {}) :
        /\ result' = [result EXCEPT ![c] = r]
        /\ hpc' = IF r = NoErr THEN hpc
                  ELSE [b \in Calls |->
                            IF hpc[b] = "none" THEN "none" ELSE "finished"]
    /\ pc' = [pc EXCEPT ![c] = "returned"]
    /\ UNCHANGED <<cancelable, ctxErr, panic, qpc>>
    /\ UNCHANGED wgVars
    /\ UNCHANGED quitVars
    /\ UNCHANGED histVars
    /\ UNCHANGED ctxVars
    /\ UNCHANGED otherVars
    /\ UNCHANGED appVars

\* Faulty variant of ShutdownSelect: a call that returns on ctx.Done() undoes
\* the shutdown request, with a fresh quit channel and Once.
ShutdownSelectRollback(c) ==
    /\ panic = NoPanic
    /\ pc[c] = "select"
    /\ \E r \in (IF ctxErr[c] # NoErr THEN {ctxErr[c]} ELSE {})
                \cup (IF DoneClosed(c) THEN {NoErr} ELSE {}) :
        /\ result' = [result EXCEPT ![c] = r]
        /\ quit' = IF r = NoErr THEN quit ELSE FALSE
        /\ onceDone' = IF r = NoErr THEN onceDone ELSE FALSE
    /\ pc' = [pc EXCEPT ![c] = "returned"]
    /\ UNCHANGED <<hpc, cancelable, ctxErr, panic, qpc, quitCloses>>
    /\ UNCHANGED wgVars
    /\ UNCHANGED histVars
    /\ UNCHANGED ctxVars
    /\ UNCHANGED otherVars
    /\ UNCHANGED appVars

\* Shutdown's select and return.
ShutdownSelect(c) ==
    /\ panic = NoPanic
    /\ pc[c] = "select"
    /\ \E r \in SelectResults(c) :
        result' = [result EXCEPT ![c] = r]
    /\ pc' = [pc EXCEPT ![c] = "returned"]
    /\ UNCHANGED <<hpc, cancelable, ctxErr, panic, qpc>>
    /\ UNCHANGED wgVars
    /\ UNCHANGED quitVars
    /\ UNCHANGED histVars
    /\ UNCHANGED ctxVars
    /\ UNCHANGED otherVars
    /\ UNCHANGED appVars

\* The context passed to call c becomes done while the call is in progress:
\* its deadline passes or its cancel function is called.
CtxExpire(c) ==
    /\ panic = NoPanic
    /\ InCall(c)
    /\ cancelable[c]
    /\ ctxErr[c] = NoErr
    /\ \E e \in CtxErrs :
        /\ ctxErr' = [ctxErr EXCEPT ![c] = e]
        /\ Track(pc, counter, ctxErr', FALSE, FALSE)
    /\ UNCHANGED <<pc, hpc, cancelable, result, panic, qpc>>
    /\ UNCHANGED wgVars
    /\ UNCHANGED quitVars
    /\ UNCHANGED ctxVars
    /\ UNCHANGED otherVars
    /\ UNCHANGED appVars

-----------------------------------------------------------------------------
(* Graceful.Quit and Graceful.Context *)

\* <-g.Quit() is ready: Quit returns g.quit, and a receive from a closed
\* channel never blocks.
Quit == quit

\* g.Context(parent): context.WithCancel(parent) and the go statement that
\* starts the listener.  A context derived from a canceled parent is
\* canceled from the start.  Contexts are numbered in the order of creation.
Context(d) ==
    /\ panic = NoPanic
    /\ dpc[d] = "none"
    /\ IF d = 1 THEN TRUE ELSE dpc[d - 1] # "none"
    /\ \E p \in BOOLEAN :
        /\ parentDone' = [parentDone EXCEPT ![d] = p]
        /\ dctxDone' = [dctxDone EXCEPT ![d] = p]
    /\ dpc' = [dpc EXCEPT ![d] = "select"]
    /\ UNCHANGED <<panic, qpc>>
    /\ UNCHANGED wgVars
    /\ UNCHANGED quitVars
    /\ UNCHANGED callVars
    /\ UNCHANGED histVars
    /\ UNCHANGED otherVars
    /\ UNCHANGED appVars

\* The parent of a derived context is canceled: context.WithCancel
\* propagates the cancelation to the child.
ParentCancel(d) ==
    /\ panic = NoPanic
    /\ dpc[d] # "none"
    /\ ~parentDone[d]
    /\ parentDone' = [parentDone EXCEPT ![d] = TRUE]
    /\ dctxDone' = [dctxDone EXCEPT ![d] = TRUE]
    /\ UNCHANGED <<dpc, panic, qpc>>
    /\ UNCHANGED wgVars
    /\ UNCHANGED quitVars
    /\ UNCHANGED callVars
    /\ UNCHANGED histVars
    /\ UNCHANGED otherVars
    /\ UNCHANGED appVars

\* Faulty variant of ListenReady: the select has no g.Quit() case.
ListenReadyCtxOnly(d) == dctxDone[d]

\* Faulty variant of ListenReady: the listener also wakes when the counter
\* is zero, as if it waited for the drain and not for the quit signal.
ListenReadyDrained(d) == Quit \/ dctxDone[d] \/ counter = 0

\* The listener's select has a ready case.
ListenReady(d) == Quit \/ dctxDone[d]

\* Faulty variant of ContextListen: a listener woken by its ctx also
\* requests the shutdown, closing g.quit through the Once.
ContextListenClosesQuit(d) ==
    /\ panic = NoPanic
    /\ dpc[d] = "select"
    /\ Quit \/ dctxDone[d]
    /\ dctxDone' = [dctxDone EXCEPT ![d] = TRUE]
    /\ dpc' = [dpc EXCEPT ![d] = "finished"]
    /\ quit' = TRUE
    /\ onceDone' = TRUE
    /\ quitCloses' = IF onceDone THEN quitCloses ELSE quitCloses + 1
    /\ UNCHANGED <<parentDone, panic, qpc>>
    /\ UNCHANGED wgVars
    /\ UNCHANGED callVars
    /\ UNCHANGED histVars
    /\ UNCHANGED otherVars
    /\ UNCHANGED appVars

\* The listener goroutine of g.Context: select on g.Quit() and ctx.Done(),
\* then cancel().
ContextListen(d) ==
    /\ panic = NoPanic
    /\ dpc[d] = "select"
    /\ ListenReady(d)
    /\ dctxDone' = [dctxDone EXCEPT ![d] = TRUE]
    /\ dpc' = [dpc EXCEPT ![d] = "finished"]
    /\ UNCHANGED <<parentDone, panic, qpc>>
    /\ UNCHANGED wgVars
    /\ UNCHANGED quitVars
    /\ UNCHANGED callVars
    /\ UNCHANGED histVars
    /\ UNCHANGED otherVars
    /\ UNCHANGED appVars

-----------------------------------------------------------------------------
(* The worker of TestGraceful_quit *)

\* g.Add(1) and the go statement that starts a worker which blocks until
\* g.Quit() is closed.  Workers are numbered in the order of registration.
QuitWorkerStart(q) ==
    /\ panic = NoPanic
    /\ qpc[q] = "new"
    /\ IF q = 1 THEN TRUE ELSE qpc[q - 1] # "new"
    /\ WgAdd(1)
    /\ Track(pc, counter + 1, ctxErr, FALSE, TRUE)
    /\ qpc' = [qpc EXCEPT ![q] = "blocked"]
    /\ UNCHANGED quitVars
    /\ UNCHANGED callVars
    /\ UNCHANGED ctxVars
    /\ UNCHANGED otherVars
    /\ UNCHANGED appVars

\* Faulty variant of QuitWorkerDone: quit is a value sent on the channel,
\* which the first receiver takes.
QuitWorkerDoneConsumes(q) ==
    /\ panic = NoPanic
    /\ qpc[q] = "blocked"
    /\ quit
    /\ WgAdd(-1)
    /\ Track(pc, counter - 1, ctxErr, FALSE, FALSE)
    /\ qpc' = [qpc EXCEPT ![q] = "finished"]
    /\ quit' = FALSE
    /\ UNCHANGED <<onceDone, quitCloses>>
    /\ UNCHANGED callVars
    /\ UNCHANGED ctxVars
    /\ UNCHANGED otherVars
    /\ UNCHANGED appVars

\* The worker's select receives from g.Quit() and its deferred g.Done()
\* runs.  (The test's other case, a one minute timer, is left out.)
QuitWorkerDone(q) ==
    /\ panic = NoPanic
    /\ qpc[q] = "blocked"
    /\ Quit
    /\ WgAdd(-1)
    /\ Track(pc, counter - 1, ctxErr, FALSE, FALSE)
    /\ qpc' = [qpc EXCEPT ![q] = "finished"]
    /\ UNCHANGED quitVars
    /\ UNCHANGED callVars
    /\ UNCHANGED ctxVars
    /\ UNCHANGED otherVars
    /\ UNCHANGED appVars

\* No Shutdown call has been made.
NoCallYet == \A c \in Calls : pc[c] = "idle"

\* The test registers its workers before it calls Shutdown.
TestRegister(q) == NoCallYet /\ QuitWorkerStart(q)

-----------------------------------------------------------------------------
(* A second Graceful, made by another call of NewGraceful *)

\* Everything of the first Graceful and of its callers but the panic, which
\* belongs to the process.
firstVars == <<wgVars, quitVars, callVars, histVars, ctxVars, qpc>>

\* wg.Add(delta) of the second Graceful.  The add and the release of the
\* waiters at zero are one step here, so no Add finds waiters at a zero
\* counter.
OtherWgAdd(delta) ==
    LET v == otherCounter + delta IN
    /\ otherCounter' = v
    /\ IF v < 0
       THEN panic' = NegativeCounter /\ otherWaiters' = otherWaiters
       ELSE /\ panic' = panic
            /\ otherWaiters' = IF v = 0 THEN 0 ELSE otherWaiters

OtherAdd(delta) ==
    /\ panic = NoPanic
    /\ otherCounter + delta <= MaxCount
    /\ OtherWgAdd(delta)
    /\ UNCHANGED otherQuit
    /\ UNCHANGED firstVars
    /\ UNCHANGED appVars

OtherDone ==
    /\ panic = NoPanic
    /\ OtherWgAdd(-1)
    /\ UNCHANGED otherQuit
    /\ UNCHANGED firstVars
    /\ UNCHANGED appVars

\* Shutdown of the second Graceful up to its select: the Once closes its
\* quit, and its helper blocks in Wait when the counter is above zero.
OtherShutdown ==
    /\ panic = NoPanic
    /\ otherWaiters < NumCalls
    /\ otherQuit' = TRUE
    /\ otherWaiters' = IF otherCounter > 0 THEN otherWaiters + 1
                       ELSE otherWaiters
    /\ UNCHANGED <<otherCounter, panic>>
    /\ UNCHANGED firstVars
    /\ UNCHANGED appVars

-----------------------------------------------------------------------------
(* package application: App.Start *)

\* Everything of the two Gracefuls and the panic of their process.
gracefulVars == <<firstVars, otherVars, panic>>

\* The process that runs Start is gone, or Start has returned.
StartOver == startPc \in {"returned", "exited", "killed"}

\* The done channel of Start is closed.
AppDoneClosed == sfPc = "closed"

\* Start calls the next of a.Functions: it goes on when the function
\* returns nil and returns its error otherwise; when the function panics,
\* the deferred recover of Start logs and calls os.Exit(1).
StartFunction ==
    /\ startPc = "functions"
    /\ fnIdx < NumFunctions
    /\ \E r \in {"nil", "error", "panic"} :
        /\ fnIdx' = IF r = "nil" THEN fnIdx + 1 ELSE fnIdx
        /\ startPc' = IF r = "nil" THEN "functions"
                      ELSE IF r = "error" THEN "returned" ELSE "exited"
        /\ startErr' = IF r = "error" THEN "error" ELSE startErr
    /\ UNCHANGED <<hasShutdownFunc, pidFile, sfPc, sfOutcome, sigSent,
                   sigReceived>>
    /\ UNCHANGED stopVars
    /\ UNCHANGED gracefulVars

\* All functions have returned nil: Start makes interruptChannel, calls
\* signal.Notify and blocks in the receive.
StartNotify ==
    /\ startPc = "functions"
    /\ fnIdx = NumFunctions
    /\ startPc' = "wait"
    /\ UNCHANGED <<fnIdx, startErr, hasShutdownFunc, pidFile, sfPc, sfOutcome,
                   sigSent, sigReceived>>
    /\ UNCHANGED stopVars
    /\ UNCHANGED gracefulVars

\* A SIGINT or SIGTERM reaches the process.  Before signal.Notify it ends
\* the process.  After it the signal is sent to interruptChannel without
\* blocking: Start receives it when it is blocked in the receive or in the
\* select, and the signal is dropped when Start is not there yet or is
\* elsewhere.  Received in the select, it makes Start return nil.
SignalArrives ==
    \E got \in BOOLEAN :
        /\ startPc' =
            IF startPc = "functions" THEN "killed"
            ELSE IF startPc = "wait" /\ got THEN "cleanup"
            ELSE IF startPc = "select" /\ got THEN "returned"
            ELSE startPc
        /\ sigReceived' =
            IF startPc \in {"wait", "select"} /\ got
            THEN sigReceived + 1 ELSE sigReceived
        /\ startErr' =
            IF startPc = "select" /\ got THEN "nil" ELSE startErr

\* Somebody sends SIGINT or SIGTERM to the process.
Signal ==
    /\ ~StartOver
    /\ sigSent < MaxSignals
    /\ sigSent' = sigSent + 1
    /\ SignalArrives
    /\ UNCHANGED <<fnIdx, hasShutdownFunc, pidFile, sfPc, sfOutcome>>
    /\ UNCHANGED stopVars
    /\ UNCHANGED gracefulVars

\* After the first signal: a.Daemon.Cleanup() removes the pid file, if
\* there is one; without ShutdownFunc Start returns nil.
StartCleanup ==
    /\ startPc = "cleanup"
    /\ pidFile' = FALSE
    /\ startPc' = IF hasShutdownFunc THEN "spawn" ELSE "returned"
    /\ startErr' = IF hasShutdownFunc THEN startErr ELSE "nil"
    /\ UNCHANGED <<fnIdx, hasShutdownFunc, sfPc, sfOutcome, sigSent,
                   sigReceived>>
    /\ UNCHANGED stopVars
    /\ UNCHANGED gracefulVars

\* Start makes done, starts the goroutine that calls ShutdownFunc, makes a
\* second interruptChannel and goes to its select.
StartSpawn ==
    /\ startPc = "spawn"
    /\ sfPc' = "running"
    /\ startPc' = "select"
    /\ UNCHANGED <<fnIdx, startErr, hasShutdownFunc, pidFile, sfOutcome,
                   sigSent, sigReceived>>
    /\ UNCHANGED stopVars
    /\ UNCHANGED gracefulVars

\* a.ShutdownFunc() ends: it returns nil or an error, which is logged, or
\* it panics, and the deferred recover logs the panic and the goroutine
\* ends there.  A ShutdownFunc that blocks never takes this step.
ShutdownFuncEnds ==
    /\ ~StartOver
    /\ sfPc = "running"
    /\ \E o \in {"nil", "error", "panic"} :
        /\ sfOutcome' = o
        /\ sfPc' = IF o = "panic" THEN "recovered" ELSE "returned"
    /\ UNCHANGED <<startPc, fnIdx, startErr, hasShutdownFunc, pidFile,
                   sigSent, sigReceived>>
    /\ UNCHANGED stopVars
    /\ UNCHANGED gracefulVars

\* The goroutine closes done after ShutdownFunc has returned.
CloseDone ==
    /\ ~StartOver
    /\ sfPc = "returned"
    /\ sfPc' = "closed"
    /\ UNCHANGED <<startPc, fnIdx, startErr, hasShutdownFunc, pidFile,
                   sfOutcome, sigSent, sigReceived>>
    /\ UNCHANGED stopVars
    /\ UNCHANGED gracefulVars

\* The select of Start takes the case <-done and Start returns nil.
StartSelectDone ==
    /\ startPc = "select"
    /\ AppDoneClosed
    /\ startPc' = "returned"
    /\ startErr' = "nil"
    /\ UNCHANGED <<fnIdx, hasShutdownFunc, pidFile, sfPc, sfOutcome, sigSent,
                   sigReceived>>
    /\ UNCHANGED stopVars
    /\ UNCHANGED gracefulVars

-----------------------------------------------------------------------------
(* package application: StopDaemon *)

\* StopDaemon is called, in a process of its own.
StopDaemon ==
    /\ stopPc = "idle"
    /\ stopPc' = "stop"
    /\ UNCHANGED <<i, polls, lastPollErr, stopErr>>
    /\ UNCHANGED startVars
    /\ UNCHANGED gracefulVars

\* err := d.Stop().  With an error StopDaemon returns "failed: ...";
\* without, the term signal has been sent to the daemon process and the
\* loop starts with i at 0.
DaemonStop ==
    /\ stopPc = "stop"
    /\ \E failed \in BOOLEAN :
        IF failed
        THEN /\ stopPc' = "returned"
             /\ stopErr' = "failed"
             /\ UNCHANGED <<i, startPc, startErr, sigSent, sigReceived>>
        ELSE /\ stopPc' = "check"
             /\ i' = 0
             /\ stopErr' = stopErr
             /\ sigSent' = sigSent + 1
             /\ SignalArrives
    /\ UNCHANGED <<polls, lastPollErr>>
    /\ UNCHANGED <<fnIdx, hasShutdownFunc, pidFile, sfPc, sfOutcome>>
    /\ UNCHANGED gracefulVars

\* Faulty variant of StopCheck: the loop gives up when i reaches the limit,
\* one poll early.
StopCheckOffByOne ==
    /\ stopPc = "check"
    /\ IF i >= MaxRetries
       THEN stopPc' = "returned" /\ stopErr' = "stop failed"
       ELSE stopPc' = "status" /\ stopErr' = stopErr
    /\ UNCHANGED <<i, polls, lastPollErr>>
    /\ UNCHANGED startVars
    /\ UNCHANGED gracefulVars

\* The head of the loop: if i > 10, StopDaemon returns "stop failed".
StopCheck ==
    /\ stopPc = "check"
    /\ IF i > MaxRetries
       THEN stopPc' = "returned" /\ stopErr' = "stop failed"
       ELSE stopPc' = "status" /\ stopErr' = stopErr
    /\ UNCHANGED <<i, polls, lastPollErr>>
    /\ UNCHANGED startVars
    /\ UNCHANGED gracefulVars

\* d.Status(): with an error the loop is left and StopDaemon returns nil,
\* the err of d.Stop() being nil; without, StopDaemon goes to sleep.
DaemonStatus ==
    /\ stopPc = "status"
    /\ polls' = polls + 1
    /\ \E statusErr \in BOOLEAN :
        /\ lastPollErr' = statusErr
        /\ stopPc' = IF statusErr THEN "returned" ELSE "sleep"
        /\ stopErr' = IF statusErr THEN "nil" ELSE stopErr
    /\ UNCHANGED i
    /\ UNCHANGED startVars
    /\ UNCHANGED gracefulVars

\* time.Sleep(250 * time.Millisecond) and i++.
StopSleep ==
    /\ stopPc = "sleep"
    /\ i' = i + 1
    /\ stopPc' = "check"
    /\ UNCHANGED <<polls, lastPollErr, stopErr>>
    /\ UNCHANGED startVars
    /\ UNCHANGED gracefulVars

-----------------------------------------------------------------------------
(* Specifications *)

\* Steps of Shutdown calls and of the WaitGroup.
NextShutdown ==
    \/ \E delta \in Deltas : Add(delta)
    \/ Done
    \/ WgRelease
    \/ \E c \in Calls : ShutdownCall(c)
    \/ \E c \in Calls : ShutdownOnce(c)
    \/ \E c \in Calls : HelperWait(c)
    \/ \E c \in Calls : HelperWake(c)
    \/ \E c \in Calls : ShutdownSelect(c)
    \/ \E c \in Calls : CtxExpire(c)

Next ==
    \/ NextShutdown
    \/ \E d \in Ctxs : Context(d)
    \/ \E d \in Ctxs : ParentCancel(d)
    \/ \E d \in Ctxs : ContextListen(d)

\* Workers call Add and Done, callers call Shutdown and Context, in any
\* order and from any number of goroutines.
Spec == Init /\ [][Next]_vars

\* Spec without derived contexts.
ShutdownSpec == Init /\ [][NextShutdown]_vars

\* ShutdownSpec with histories of each call recorded.
ZeroSpec == InitZero /\ [][NextShutdown]_vars

DrainSpec == InitDrain /\ [][NextShutdown]_vars

RaceSpec == InitRace /\ [][NextShutdown]_vars

\* The Go scheduler runs every goroutine that can run: the steps inside
\* Shutdown, its helper, a releasing Add and the Context listener are
\* eventually taken.  Nothing obliges workers or callers to make a call, or
\* a context to become done.
Fairness ==
    /\ WF_vars(WgRelease)
    /\ \A c \in Calls :
        /\ WF_vars(ShutdownOnce(c))
        /\ WF_vars(HelperWait(c))
        /\ WF_vars(HelperWake(c))
        /\ WF_vars(ShutdownSelect(c))
    /\ \A d \in Ctxs : WF_vars(ContextListen(d))

FairSpec == Spec /\ Fairness

\* ShutdownSpec with the scheduler's fairness.
FairShutdownSpec == ShutdownSpec /\ Fairness

\* A fresh Graceful on which no worker ever calls Add or Done: Shutdown
\* calls only, as in a process that has started no tracked work.
NextFresh ==
    \/ \E c \in Calls : ShutdownCall(c)
    \/ \E c \in Calls : ShutdownOnce(c)
    \/ \E c \in Calls : HelperWait(c)
    \/ \E c \in Calls : ShutdownSelect(c)
    \/ \E c \in Calls : CtxExpire(c)

FreshSpec == Init /\ [][NextFresh]_vars /\ Fairness

\* TestGraceful_quit with any number of workers and callers: workers that
\* wait for Quit are the only users of the counter.
NextQuit ==
    \/ \E q \in QWorkers : TestRegister(q)
    \/ \E q \in QWorkers : QuitWorkerDone(q)
    \/ WgRelease
    \/ \E c \in Calls : ShutdownCall(c)
    \/ \E c \in Calls : ShutdownOnce(c)
    \/ \E c \in Calls : HelperWait(c)
    \/ \E c \in Calls : HelperWake(c)
    \/ \E c \in Calls : ShutdownSelect(c)
    \/ \E c \in Calls : CtxExpire(c)

QuitSpec ==
    /\ Init
    /\ [][NextQuit]_vars
    /\ Fairness
    /\ \A q \in QWorkers : WF_vars(QuitWorkerDone(q))

\* The listeners of Quit together: the workers of QuitSpec and derived
\* contexts.
NextListen ==
    \/ NextQuit
    \/ \E d \in Ctxs : Context(d)
    \/ \E d \in Ctxs : ParentCancel(d)
    \/ \E d \in Ctxs : ContextListen(d)

ListenSpec == Init /\ [][NextListen]_vars

\* Steps of the second Graceful.
NextOther ==
    \/ \E delta \in Deltas : OtherAdd(delta)
    \/ OtherDone
    \/ OtherShutdown

\* Two Gracefuls in one process, used in any interleaving.
NextTwo == Next \/ NextOther

TwoSpec == Init /\ [][NextTwo]_vars

\* An App with or without ShutdownFunc and pid file; no Graceful is used.
InitApp ==
    /\ NewGraceful
    /\ tracking = {}
    /\ \E shutdownFunc, pid \in BOOLEAN : NewApp(shutdownFunc, pid)

\* A daemon process runs Start and receives signals; another process calls
\* StopDaemon.
NextApp ==
    \/ StartFunction
    \/ StartNotify
    \/ Signal
    \/ StartCleanup
    \/ StartSpawn
    \/ ShutdownFuncEnds
    \/ CloseDone
    \/ StartSelectDone
    \/ StopDaemon
    \/ DaemonStop
    \/ StopCheck
    \/ DaemonStatus
    \/ StopSleep

AppSpec == InitApp /\ [][NextApp]_vars

\* StopDaemon is sequential code whose calls of d.Stop, d.Status and
\* time.Sleep return; in Start, the goroutine of ShutdownFunc closes done
\* once ShutdownFunc has returned and the select takes a ready case.
\* Nothing obliges a signal to arrive or ShutdownFunc to end.
FairAppSpec ==
    /\ AppSpec
    /\ WF_vars(DaemonStop)
    /\ WF_vars(StopCheck)
    /\ WF_vars(DaemonStatus)
    /\ WF_vars(StopSleep)
    /\ WF_vars(StartFunction)
    /\ WF_vars(StartNotify)
    /\ WF_vars(StartCleanup)
    /\ WF_vars(StartSpawn)
    /\ WF_vars(CloseDone)
    /\ WF_vars(StartSelectDone)

\* ZeroSpec under the scheduler's fairness.
FairZeroSpec == ZeroSpec /\ Fairness

\* The process has been ended by a panic; it takes no further step.
Crashed == panic # NoPanic

\* Call c returns in this step.
Returns(c) == pc[c] = "select" /\ pc'[c] = "returned"

-----------------------------------------------------------------------------
(* Claims C1 to C10 *)

\* C1: with n >= 1 units registered before Shutdown is called, no Add after
\* the call and a context that is not done, Shutdown has not returned while
\* the counter is above zero, and it returns nil.
C1_WaitsForDrain ==
    \A c \in Calls :
        (pc[c] = "returned" /\ zeroSeen[c] # "atCall" /\ ~addSince[c]
                /\ ctxErr[c] = NoErr /\ ~Crashed)
            => (counter = 0 /\ result[c] = NoErr /\ zeroSeen[c] = "later")

C1_Witness ==
    \E c \in Calls :
        /\ pc[c] = "returned"
        /\ ~cancelable[c]
        /\ zeroSeen[c] = "later"
        /\ ~addSince[c]
        /\ result[c] = NoErr
        /\ counter = 0

\* C2 as claimed: whatever the Add and Done calls made during the call, a
\* Shutdown whose context is not done returns when the last matching Done
\* has occurred, never before: the counter is zero when it returns.
C2_ReturnsAtLastDone ==
    [][\A c \in Calls :
        (Returns(c) /\ ctxErr[c] = NoErr) => counter = 0]_vars

\* C2 as amended: a Shutdown whose context is not done returns nil, and not
\* before the counter has been zero at some instant of the call; units added
\* after that instant are not waited for.
C2_ReturnsAfterZero ==
    \A c \in Calls :
        (pc[c] = "returned" /\ ctxErr[c] = NoErr)
            => (result[c] = NoErr /\ zeroSeen[c] # "no" /\ DoneClosed(c))

C2_Witness ==
    \E c \in Calls :
        /\ pc[c] = "returned"
        /\ ~cancelable[c]
        /\ result[c] = NoErr
        /\ zeroSeen[c] = "later"
        /\ counter > 0
        /\ ~Crashed

\* C3: when ctx is done during a call in which the counter has stayed above
\* zero, Shutdown returns in the end (as long as the process runs) without
\* waiting for the counter, and the value returned is ctx.Err().
C3_ContextWins ==
    /\ [](\A c \in Calls :
            (pc[c] = "returned" /\ zeroSeen[c] = "no")
                => (result[c] = ctxErr[c] /\ ctxErr[c] \in CtxErrs))
    /\ \A c \in Calls :
        (InCall(c) /\ ctxErr[c] \in CtxErrs)
            ~> (pc[c] = "returned" \/ Crashed)

C3_Witness ==
    \E c \in Calls :
        /\ pc[c] = "returned"
        /\ result[c] = DeadlineExceeded
        /\ zeroSeen[c] = "no"
        /\ hpc[c] = "parked"
        /\ counter > 0

\* C4: Shutdown closes quit before its helper waits for the counter, so
\* workers that call Done only after Quit is closed are released, and a
\* Shutdown whose context cannot become done returns nil in the end.
C4_QuitBeforeWait ==
    /\ [](\A c \in Calls : hpc[c] # "none" => quit)
    /\ \A c \in Calls :
        (InCall(c) /\ ~cancelable[c])
            ~> (pc[c] = "returned" /\ result[c] = NoErr)

C4_Witness ==
    \E c \in Calls :
        /\ pc[c] = "returned"
        /\ ~cancelable[c]
        /\ result[c] = NoErr
        /\ counter = 0
        /\ \A q \in QWorkers : qpc[q] = "finished"

\* C5 as claimed: when the counter is zero during the call before ctx is
\* done, Shutdown returns nil, also when ctx becomes done before it returns.
C5_FirstEventWins ==
    \A c \in Calls :
        (pc[c] = "returned" /\ race[c] = "zero") => result[c] = NoErr

\* C5 as amended: when the counter is zero during the call before ctx is
\* done, Shutdown returns nil if ctx is still not done when it returns; if
\* ctx has become done by then it returns nil or ctx.Err(), and nil only
\* with the done channel closed.
C5_ReadyCaseWins ==
    \A c \in Calls :
        (pc[c] = "returned" /\ race[c] = "zero")
            => /\ result[c] \in {NoErr, ctxErr[c]}
               /\ ctxErr[c] = NoErr => result[c] = NoErr
               /\ result[c] = NoErr => DoneClosed(c)

C5_Witness ==
    \E c \in Calls :
        /\ pc[c] = "returned"
        /\ race[c] = "zero"
        /\ DoneClosed(c)
        /\ result[c] = Canceled
        /\ counter = 0

\* C6: once quit is closed it stays closed, every listener blocked on Quit
\* can take its step whenever it looks, and a listener's step leaves quit
\* as it is.
C6_QuitLevelTriggered ==
    /\ [][quit => quit']_vars
    /\ [](quit /\ ~Crashed =>
            /\ \A q \in QWorkers :
                qpc[q] = "blocked" => ENABLED QuitWorkerDone(q)
            /\ \A d \in Ctxs :
                dpc[d] = "select" => ENABLED ContextListen(d))

C6_Witness ==
    /\ quit
    /\ \A q \in QWorkers : qpc[q] = "finished"
    /\ \A d \in Ctxs : dpc[d] = "finished" /\ ~parentDone[d]

\* C7: however many Shutdown calls are made, quit is closed once, no call
\* panics on a closed channel, and quit is closed from the moment the first
\* call is past the Once.
C7_ClosedOnce ==
    /\ quitCloses <= 1
    /\ quit <=> quitCloses = 1
    /\ panic # CloseOfClosed
    /\ \A c \in Calls : pc[c] \in {"select", "returned"} => quit

C7_Witness ==
    /\ \A c \in Calls : pc[c] \in {"select", "returned"}
    /\ quitCloses = 1
    /\ ~Crashed

\* C8: the counter is negative only in a process that Add or Done has ended
\* with the negative-counter panic: a sum of deltas below zero is never
\* clamped.
C8_NegativePanics ==
    /\ counter < 0 => panic = NegativeCounter
    /\ sum < 0 => (counter = sum /\ panic = NegativeCounter)

C8_Witness ==
    /\ panic = NegativeCounter
    /\ counter = -1
    /\ sum = -1

\* C9: a context made by Context(parent) is canceled in the end (as long as
\* the process runs) when Shutdown has been called, before or after it was
\* made, and when its parent is canceled; the counter need not be zero.
C9_DerivedCanceled ==
    \A d \in Ctxs :
        (dpc[d] # "none" /\ (parentDone[d] \/ ~NoCallYet))
            ~> (dctxDone[d] \/ Crashed)

C9_Witness ==
    \E d \in Ctxs :
        /\ dctxDone[d]
        /\ ~parentDone[d]
        /\ counter > 0
        /\ \E c \in Calls : InCall(c)
        /\ ~Crashed

\* C10: of two calls in progress, the one whose ctx is done returns
\* ctx.Err() and changes nothing of the other; the other, whose ctx is not
\* done, does not return before the counter has been zero, and returns nil
\* in the end when the counter is zero and stays zero.
C10_CallersIndependent ==
    /\ [](\A a, b \in Calls :
            (a # b /\ pc[a] = "returned" /\ result[a] \in CtxErrs
                    /\ pc[b] = "returned" /\ ctxErr[b] = NoErr)
                => (result[b] = NoErr /\ zeroSeen[b] # "no"))
    /\ [][\A a, b \in Calls :
            (a # b /\ Returns(a))
                => (pc'[b] = pc[b] /\ hpc'[b] = hpc[b]
                    /\ result'[b] = result[b]
                    /\ <<counter, waiters, sema, releasing>>'
                        = <<counter, waiters, sema, releasing>>)]_vars
    /\ \A a, b \in Calls :
        (a # b /\ pc[a] = "returned" /\ result[a] \in CtxErrs
                /\ pc[b] = "select" /\ ~cancelable[b] /\ counter = 0)
            ~> ((pc[b] = "returned" /\ result[b] = NoErr)
                \/ counter # 0 \/ Crashed)

C10_Witness ==
    /\ pc[2] = "returned"
    /\ result[2] \in CtxErrs
    /\ zeroSeen[2] = "no"
    /\ pc[1] = "returned"
    /\ ~cancelable[1]
    /\ result[1] = NoErr
    /\ zeroSeen[1] = "later"

-----------------------------------------------------------------------------
(* Claims C11 to C20 *)

\* C11: no wakeup is lost.  A call whose ctx cannot be done, whether its
\* helper is parked when the counter reaches zero or it starts waiting
\* afterwards, returns nil in the end when the counter is zero and stays
\* zero, however many calls are waiting.
C11_NoLostWakeup ==
    \A c \in Calls :
        (InCall(c) /\ ~cancelable[c] /\ counter = 0)
            ~> ((pc[c] = "returned" /\ result[c] = NoErr)
                \/ counter # 0 \/ Crashed)

C11_Witness ==
    /\ \A c \in Calls :
        /\ pc[c] = "returned"
        /\ ~cancelable[c]
        /\ result[c] = NoErr
        /\ zeroSeen[c] = "later"
    /\ counter = 0
    /\ ~Crashed

\* C12: a call that has returned leaves nothing blocked: its helper is not
\* parked in g.wg.Wait() with no release on its way, where only the counter
\* reaching zero can end it.
C12_NothingLeftBlocked ==
    \A c \in Calls :
        (pc[c] = "returned" /\ ~Crashed)
            => ~(hpc[c] = "parked" /\ counter > 0
                    /\ sema = 0 /\ releasing = 0)

\* C13: the listener goroutine started by Context always terminates, also
\* when Shutdown is never called and the parent is never canceled.
C13_ListenerTerminates ==
    \A d \in Ctxs :
        (dpc[d] = "select") ~> (dpc[d] = "finished" \/ Crashed)

\* C14: a call that returns ctx.Err() rolls nothing back.  Quit is closed
\* and stays closed, the return changes neither the counter nor the
\* waiters, the counter is still the sum of the deltas of Add and Done, a
\* Done still decrements it, and another call whose ctx cannot be done
\* returns nil in the end when the counter is zero and stays zero.
C14_NoRollback ==
    /\ [](\A a \in Calls :
            (pc[a] = "returned" /\ result[a] \in CtxErrs)
                => (quit /\ counter = sum))
    /\ [][\A a \in Calls :
            (Returns(a) /\ result'[a] \in CtxErrs)
                => (quit /\ quit'
                    /\ <<counter, waiters, sema, releasing, sum>>'
                        = <<counter, waiters, sema, releasing, sum>>)]_vars
    /\ [][(\E a \in Calls : pc[a] = "returned" /\ result[a] \in CtxErrs)
            => (sum' = sum - 1 => counter' = counter - 1)]_vars
    /\ \A a, b \in Calls :
        (a # b /\ pc[a] = "returned" /\ result[a] \in CtxErrs
                /\ InCall(b) /\ ~cancelable[b] /\ counter = 0)
            ~> ((pc[b] = "returned" /\ result[b] = NoErr)
                \/ counter # 0 \/ Crashed)

\* The first call returned an error and its helper has finished since; the
\* second call returned nil with quit closed and the counter at zero.
C14_Witness ==
    /\ pc[1] = "returned"
    /\ result[1] \in CtxErrs
    /\ hpc[1] = "finished"
    /\ pc[2] = "returned"
    /\ ~cancelable[2]
    /\ result[2] = NoErr
    /\ quit
    /\ counter = 0
    /\ sum = 0
    /\ ~Crashed

\* C15: every return of Shutdown is nil, DeadlineExceeded or Canceled; nil
\* only when the counter was zero at some instant of the call, an error only
\* when it is the error of the call's ctx, done at the return; a call whose
\* ctx cannot be done returns nil.
C15_ReturnJustified ==
    \A c \in Calls :
        pc[c] = "returned"
            => /\ result[c] \in {NoErr, DeadlineExceeded, Canceled}
               /\ result[c] = NoErr => zeroSeen[c] \in {"atCall", "later"}
               /\ result[c] # NoErr
                    => (ctxErr[c] \in CtxErrs /\ result[c] = ctxErr[c])
               /\ ~cancelable[c] => result[c] = NoErr

\* One call returned nil although its ctx was done by then, the other
\* returned its ctx's error although the counter had come to zero.
C15_Witness ==
    /\ pc[1] = "returned"
    /\ result[1] = NoErr
    /\ ctxErr[1] = Canceled
    /\ zeroSeen[1] = "atCall"
    /\ pc[2] = "returned"
    /\ result[2] = DeadlineExceeded
    /\ zeroSeen[2] = "later"
    /\ ~Crashed

\* The phase of the Graceful: 0 is Running (quit open), 1 is Quitting (quit
\* closed, counter above zero), 2 is Drained (quit closed, counter zero).
Phase == IF ~quit THEN 0 ELSE IF counter > 0 THEN 1 ELSE 2

\* C16 as stated: every step of a running process keeps the phase or moves
\* it forward, Running to Quitting to Drained.
C16_PhaseForward == [][~Crashed' => Phase' >= Phase]_vars

\* C16: no step of a running process moves the phase back to Running, and
\* the only step that moves it back is an Add of a positive delta, from
\* Drained to Quitting; every other step keeps it or moves it forward.
C16_PhaseNeverRunning ==
    [][~Crashed'
        => \/ Phase' >= Phase
           \/ /\ Phase = 2
              /\ Phase' = 1
              /\ counter = 0
              /\ counter' > 0
              /\ sum' > sum
              /\ UNCHANGED <<quitVars, callVars>>]_vars

\* A call returned nil, which it does only after the counter was zero with
\* quit closed, and the counter is above zero again.
C16_Witness ==
    /\ quit
    /\ counter > 0
    /\ \E c \in Calls :
        /\ pc[c] = "returned"
        /\ result[c] = NoErr
    /\ \E d \in Ctxs : dctxDone[d]
    /\ ~Crashed

\* C17: on a Graceful whose Add was never called, no helper parks in
\* g.wg.Wait(), nothing panics, and every call returns, with nil when its
\* ctx is not done at the return.
C17_FreshReturnsNil ==
    /\ [](/\ ~Crashed
          /\ counter = 0
          /\ \A c \in Calls :
                /\ hpc[c] # "parked"
                /\ (pc[c] = "returned" /\ ctxErr[c] = NoErr)
                        => result[c] = NoErr)
    /\ \A c \in Calls :
        InCall(c)
            ~> (pc[c] = "returned"
                /\ (ctxErr[c] = NoErr => result[c] = NoErr))

C17_Witness ==
    /\ sum = 0
    /\ counter = 0
    /\ waiters = 0
    /\ \A c \in Calls :
        /\ pc[c] = "returned"
        /\ ctxErr[c] = NoErr
        /\ result[c] = NoErr
        /\ hpc[c] = "finished"

\* C18: g.quit is closed by Shutdown and only by Shutdown.  It is open until
\* a call has run its Once and closed from then on, and the only step that
\* changes it is the Once of a call: Add, Done, Context, its listener and
\* the receivers from Quit leave it alone.
C18_QuitOnlyByShutdown ==
    /\ [](NoCallYet => (~quit /\ ~onceDone /\ quitCloses = 0))
    /\ [](quit <=> \E c \in Calls : pc[c] \in {"select", "returned"})
    /\ [][quit' # quit
            => \E c \in Calls : pc[c] = "once" /\ pc'[c] = "select"]_vars

\* Quit is closed after Add, Context and the listener have acted, by a
\* call that is still in progress.
C18_Witness ==
    /\ quit
    /\ quitCloses = 1
    /\ sum > 0
    /\ \E d \in Ctxs : dpc[d] = "finished" /\ parentDone[d]
    /\ \E c \in Calls : pc[c] = "select"
    /\ ~Crashed

\* C19: as long as no Add or Done has driven the counter below zero, the
\* counter is the sum of the deltas of all Add calls, a Done counting for
\* -1, in every interleaving with each other and with the waiters; every
\* step changes the counter by the delta it applies.
C19_CounterIsSum ==
    /\ [](panic # NegativeCounter => (counter = sum /\ counter >= 0))
    /\ [][counter' - counter = sum' - sum]_vars

\* Add and Done have brought the counter to zero with a waiter registered
\* and above zero again.
C19_Witness ==
    /\ counter = sum
    /\ counter > 0
    /\ sema > 0
    /\ ~Crashed

\* C20: Done() and Add(-1) are the same step: from every state each leads
\* to the successors of the other.  The step decrements the counter, leaves
\* quit as it is, has the registered waiters released when the counter comes
\* to zero, and panics with the counter at zero.
C20_DoneIsAddMinusOne ==
    /\ [][Done <=> Add(-1)]_vars
    /\ [][Done => /\ counter' = counter - 1
                  /\ quit' = quit
                  /\ releasing' = IF counter = 1 THEN waiters ELSE releasing
                  /\ (counter = 0 <=> panic' = NegativeCounter)]_vars

\* The decrement to zero with both helpers parked, which are released.
C20_Witness ==
    /\ counter = 0
    /\ sum = 0
    /\ quit
    /\ releasing > 1
    /\ ~Crashed

-----------------------------------------------------------------------------
(* Claims C21 to C24 *)

\* C21: a context returned by Context is canceled only when its parent is
\* canceled or g.quit is closed.  No Add or Done step cancels it, whatever
\* the counter becomes, and every step that cancels it has the parent
\* canceled or quit closed.
C21_NoSpuriousCancel ==
    /\ [](\A d \in Ctxs : dctxDone[d] => (parentDone[d] \/ quit))
    /\ [][sum' # sum => dctxDone' = dctxDone]_vars
    /\ [][\A d \in Ctxs :
            (dctxDone'[d] /\ ~dctxDone[d]) => (parentDone'[d] \/ quit)]_vars

\* The context is canceled by its parent alone, with no Shutdown call made
\* and the counter above zero.
C21_Witness ==
    /\ NoCallYet
    /\ ~quit
    /\ counter > 0
    /\ \E d \in Ctxs :
        /\ dpc[d] = "finished"
        /\ dctxDone[d]
        /\ parentDone[d]
    /\ ~Crashed

\* C22: the steps of Shutdown and of Context leave the counter unchanged
\* (Quit takes no step), the steps of Add and Done leave quit unchanged,
\* every step on one Graceful leaves the counter, the quit channel and the
\* blocked waiters of the other unchanged.
C22_Frame ==
    /\ [][(\/ \E c \in Calls :
                \/ ShutdownCall(c)
                \/ ShutdownOnce(c)
                \/ HelperWait(c)
                \/ HelperWake(c)
                \/ ShutdownSelect(c)
            \/ \E d \in Ctxs : Context(d) \/ ContextListen(d))
                => counter' = counter]_vars
    /\ [][(Done \/ WgRelease \/ \E delta \in Deltas : Add(delta))
                => quit' = quit]_vars
    /\ [][Next => UNCHANGED otherVars]_vars
    /\ [][NextOther
            => UNCHANGED <<counter, quit, waiters, sema, releasing, hpc>>]_vars

\* The first Graceful is quitting with a helper parked while the second,
\* never shut down, counts work of its own.
C22_Witness ==
    /\ quit
    /\ counter > 0
    /\ waiters > 0
    /\ \E d \in Ctxs : dctxDone[d]
    /\ ~otherQuit
    /\ otherCounter > 0
    /\ otherCounter # counter
    /\ ~Crashed

\* ShutdownFunc has finished: it returned or panicked, and its goroutine
\* has ended.
ShutdownFuncFinished == sfPc \in {"closed", "recovered"}

\* C23: ShutdownFunc is started only after Start has received a signal,
\* and once ShutdownFunc has finished, however it did, Start is not left
\* blocked in its select: the step that returns from it is enabled.
C23_FinishedUnblocksStart ==
    /\ sfPc # "none" => sigReceived >= 1
    /\ (startPc = "select" /\ ShutdownFuncFinished)
            => ENABLED StartSelectDone

\* C24: StopDaemon returns "failed" without a poll when d.Stop() fails;
\* otherwise it returns nil at the first poll that reports an error, and
\* "stop failed" after 11 polls that reported none, with no further poll;
\* once called it returns.
C24_BoundedRetry ==
    /\ [](polls <= MaxRetries + 1)
    /\ [](stopErr = "failed" => polls = 0)
    /\ [](lastPollErr <=> stopErr = "nil")
    /\ [](stopErr = "nil" => (stopPc = "returned" /\ polls >= 1))
    /\ [](stopErr = "stop failed"
            => (stopPc = "returned" /\ polls = MaxRetries + 1
                /\ ~lastPollErr))
    /\ [][polls' # polls => (polls' = polls + 1 /\ polls' = i + 1)]_vars
    /\ (stopPc # "idle") ~> (stopPc = "returned")

\* StopDaemon gave up after its 11 polls while the daemon, which received
\* the term signal, is still waiting for its ShutdownFunc.
C24_Witness ==
    /\ stopPc = "returned"
    /\ stopErr = "stop failed"
    /\ polls = MaxRetries + 1
    /\ i = MaxRetries + 1
    /\ startPc = "select"
    /\ sfPc = "running"

=============================================================================
